---- MODULE Spec2Model ----
(***************************************************************************)
(* swagger-mongoose-crud: the CRUD controller (src/crud.controller.js)     *)
(* bound to a mongoose model whose schema carries the injected metadata    *)
(* (src/index.js, injectDefaults).                                         *)
(*                                                                         *)
(* The document store is the function `store`; every store call of a       *)
(* handler (findOne, find, save, remove, findOneAndUpdate, count) is one   *)
(* atomic step, and the handlers of concurrent requests interleave at      *)
(* these steps (Node's single thread runs each promise callback to its     *)
(* end before the next one). A handler's synchronous prologue touches no   *)
(* shared state, so it is one step with the handler's first store call.    *)
(***************************************************************************)
EXTENDS Integers, Sequences, FiniteSets, TLC

\* ------------------------------------------------------------- bounds
MaxReqs == 3      \* requests issued in one behaviour of a handler group
MaxReqsAll == 2   \* requests issued in one behaviour of all handlers
MaxVal == 1       \* the domain field `val` ranges over 0..MaxVal

Procs == {"p1", "p2"}        \* concurrent request slots
Ids == {"a", "b"}            \* the _id values of the collection
Vals == 0..MaxVal

VARIABLES
    store,        \* the collection: _id -> document, NoDoc when absent
    reqBound,     \* whether the free identifier `req` of _rucc resolves
    permanentDeleteData,  \* CrudController's 4th constructor argument
    stringIds,    \* whether the schema types _id as String (else ObjectId)
    omit,         \* this.omit, the controller's omit-list
    defaultFilter,\* this.defaultFilter
    limit,        \* requests the behaviour issues
    nreq,         \* requests issued so far
    pc, op, arg,  \* per request slot: position, handler, parameters
    loc,          \* per slot: the handler's local variables
    items,        \* per slot: the per-item state of a bulk operation
    res,          \* per slot: what the handler answered
    stale,        \* per slot: the document it read was written since
    lastOp,       \* per _id: the handler that committed the last write
    now           \* the clock Date.now and new Date() read

vars == <<store, reqBound, permanentDeleteData, stringIds, omit, defaultFilter, limit, nreq,
          pc, op, arg, loc, items, res, stale, lastOp, now>>

\* ---------------------------------------------------------- documents
\* A document: _id, one domain field and the _metadata block of
\* injectDefaults (deleted, version.document, createdAt, lastUpdated).
NoDoc == [id |-> "none", val |-> 0, deleted |-> FALSE, version |-> 0,
          createdAt |-> 0, lastUpdated |-> 0]

\* Schema defaults of injectDefaults: deleted false, version.document 0,
\* createdAt and lastUpdated each Date.now at construction.
NewDoc(i, v) == [id |-> i, val |-> v, deleted |-> FALSE, version |-> 0,
                 createdAt |-> now, lastUpdated |-> now]

\* schema.pre('save'): this._metadata.version.document++ and
\* this._metadata.lastUpdated = new Date()
PreSave(d) == [d EXCEPT !.version = @ + 1, !.lastUpdated = now]

Present(st, i) == st[i] # NoDoc

\* findOne by _id alone.
LiveOrDeleted(st, i) == Present(st, i)

\* The predicate {_id: i, '_metadata.deleted': false} of findOne.
Live(st, i) == Present(st, i) /\ ~st[i].deleted

\* ------------------------------------------------------- request data
\* A payload: the keys it carries and their values.
NoBody == [keys |-> {}, id |-> "none", val |-> 0, deleted |-> FALSE, version |-> 0,
           createdAt |-> 0]
BodyVal(v) == [NoBody EXCEPT !.keys = {"val"}, !.val = v]
BodyVersion(n) == [NoBody EXCEPT !.keys = {"version"}, !.version = n]
BodyDeleted(b) == [NoBody EXCEPT !.keys = {"deleted"}, !.deleted = b]
BodyId(i, v) == [NoBody EXCEPT !.keys = {"id", "val"}, !.id = i, !.val = v]
BodyCreatedAt(t) == [NoBody EXCEPT !.keys = {"createdAt"}, !.createdAt = t]

ValBodies == {BodyVal(v) : v \in Vals}

\* A filter constrains the keys it carries; "deleted" stands for the key
\* '_metadata.deleted'.
FilterOf(ks, v, d) == [NoBody EXCEPT !.keys = ks, !.val = v, !.deleted = d]
Filters == {NoBody} \cup {FilterOf({"val"}, v, FALSE) : v \in Vals}
              \cup {FilterOf({"deleted"}, 0, d) : d \in BOOLEAN}
              \cup {FilterOf({"val", "deleted"}, 0, TRUE)}


\* _.omit(body, keys)
OmitKeys(body, ks) == [body EXCEPT !.keys = @ \ ks]

\* _.mergeWith(doc, body, _customizer) on scalar fields: every key of
\* the payload overwrites the document's value.
MergeWith(d, body) ==
    [id      |-> IF "id" \in body.keys THEN body.id ELSE d.id,
     val     |-> IF "val" \in body.keys THEN body.val ELSE d.val,
     deleted |-> IF "deleted" \in body.keys THEN body.deleted ELSE d.deleted,
     version |-> IF "version" \in body.keys THEN body.version ELSE d.version,
     createdAt |-> IF "createdAt" \in body.keys THEN body.createdAt ELSE d.createdAt,
     lastUpdated |-> d.lastUpdated]

\* The comparison that never finds two documents equal.
IsEqualNever(a, b) == FALSE

\* _.isEqual(JSON.parse(JSON.stringify(a)), JSON.parse(JSON.stringify(b)))
IsEqual(a, b) == a = b

\* The transform handed to rucc: callBack(result).
Transforms == {[kind |-> "inc", v |-> 0]} \cup {[kind |-> "set", v |-> v] : v \in Vals}

CallBack(t, d) ==
    IF t.kind = "inc" THEN [d EXCEPT !.val = (@ + 1) % (MaxVal + 1)]
    ELSE [d EXCEPT !.val = t.v]

\* A JavaScript value of a parsed JSON text or of a filter: a number,
\* a string (the sequence s of its characters), a RegExp with flag i
\* (s is its source), an array of values, or an object as the sequence
\* of its own members in key order; k is the key a value stands under
\* in the object that holds it.
Num == [t |-> "num", k |-> "", v |-> <<>>, s |-> <<>>]
Str(s) == [t |-> "str", k |-> "", v |-> <<>>, s |-> s]
Pattern(s) == [t |-> "re", k |-> "", v |-> <<>>, s |-> s]
Arr(v) == [t |-> "arr", k |-> "", v |-> v, s |-> <<>>]
Obj(v) == [t |-> "obj", k |-> "", v |-> v, s |-> <<>>]
Undefined == [t |-> "undefined", k |-> "", v |-> <<>>, s |-> <<>>]
Pair(k, x) == [x EXCEPT !.k = k]

NoArg == [id |-> "none", ids |-> <<>>, body |-> NoBody,
          tf |-> [kind |-> "set", v |-> 0], async |-> FALSE,
          array |-> FALSE, upsert |-> FALSE, given |-> Num,
          page |-> 0, count |-> 0]

\* One element of a bulk operation: its _id, its position in the
\* element's promise chain, the document it carries and its outcome.
\* audit: an audit record was logged for the element; at: the rank at
\* which the element's promise resolved among those of its operation.
Item(i, st, d, n) ==
    [id |-> i, st |-> st, doc |-> d, status |-> n, audit |-> FALSE, at |-> 0]

\* The element it resolves now, after those of `its` that have resolved.
Settled(its, it) ==
    [it EXCEPT !.at = Cardinality({k \in DOMAIN its : its[k].st = "done"}) + 1]

\* What an element's promise resolved to: the document or the error of
\* the input it was started for.
Outcome(it) == [id |-> it.id, status |-> it.status, doc |-> it.doc]

\* The resolved values in the order the promises resolved.
PromiseAllByCompletion(its) ==
    [r \in DOMAIN its |-> Outcome(its[CHOOSE k \in DOMAIN its : its[k].at = r])]

\* Promise.all(promises): the resolved values in the order of the
\* promises handed in.
PromiseAll(its) == [k \in DOMAIN its |-> Outcome(its[k])]

NoLoc == [snap |-> NoDoc, new |-> NoDoc, found |-> {}, data |-> <<>>, matched |-> 0]

\* status: the HTTP status written (0: none yet); out: how a rucc call
\* ended; doc: the document answered (for rucc: the snapshot it took);
\* staleCommit: the write committed although the document read had been
\* overwritten since the read; misses: conditional updates of the call
\* that matched nothing; after: the handler that had last written the
\* document when it was read; docs, n: the documents and the count a
\* query answered; filter: the filter the request gave; handler: the
\* call named a resHandler; writes: the times the handler wrote to the
\* response; saved: the handler issued a store write; audit: the handler
\* logged an audit record; list: the array a bulk operation answered;
\* named: the ids the message of a bulk removal's error names, or the
\* key the error of aggregate names; ran: the handler called the
\* store's aggregate; given: the JSON value the call was given (the
\* body of aggregate, the argument of FilterParse or of the
\* constructor); object: the argument's object as the call left it;
\* value: what the call returned; text: the string the filter parameter
\* was; logged: the handler logged an error.
NoRes == [status |-> 0, out |-> "none", doc |-> NoDoc, staleCommit |-> FALSE,
          misses |-> 0, after |-> "none", docs |-> {}, n |-> 0, filter |-> NoBody,
          handler |-> FALSE, writes |-> 0, saved |-> FALSE, audit |-> FALSE,
          list |-> <<>>, named |-> {}, ran |-> FALSE, given |-> Num,
          object |-> Num, value |-> Num, text |-> <<>>, logged |-> FALSE,
          data |-> <<>>, page |-> 0, count |-> 0, envelope |-> FALSE,
          matched |-> 0, totalCount |-> 0]

\* Okay, NotFound, Error and res.status(n).json(...): one write of the
\* response, with status n.
Answer(n) == [NoRes EXCEPT !.status = n, !.writes = 1]

\* ------------------------------------------------------------ helpers
\* The slots that hold a document of _id i read earlier and not yet
\* written back.
Holding == {"rucc_write", "upd_save", "mark_save", "des_remove"}

\* A write to document i was committed by slot p: every other slot that
\* still holds an earlier read of i now holds an overwritten state.
Touch(p, i) ==
    [q \in Procs |->
        IF q # p /\ pc[q] \in Holding /\ arg[q].id = i THEN TRUE
        ELSE IF q = p THEN FALSE ELSE stale[q]]

\* A request arrives on a free slot.
Begin(p, o) ==
    /\ pc[p] \in {"idle", "done"}
    /\ nreq < limit
    /\ nreq' = nreq + 1
    /\ op' = [op EXCEPT ![p] = o]
    /\ stale' = [stale EXCEPT ![p] = FALSE]

\* The handler answers r (Okay, NotFound, Error; for rucc the promise
\* settles): its parameters and locals are dropped, the _id is kept.
Done(p, i, r) ==
    /\ pc' = [pc EXCEPT ![p] = "done"]
    /\ arg' = [arg EXCEPT ![p] = [NoArg EXCEPT !.id = i]]
    /\ loc' = [loc EXCEPT ![p] = NoLoc]
    /\ res' = [res EXCEPT ![p] = r]

\* The handler suspends on its next store call with parameters a and
\* locals l.
Goto(p, next, a, l) ==
    /\ pc' = [pc EXCEPT ![p] = next]
    /\ arg' = [arg EXCEPT ![p] = a]
    /\ loc' = [loc EXCEPT ![p] = l]
    /\ res' = [res EXCEPT ![p] = NoRes]

\* What no handler step changes: the controller's configuration, the
\* request budget and the clock.
Config == <<reqBound, permanentDeleteData, stringIds, omit, defaultFilter, limit, now>>

\* --------------------------------------------------------------- Init
\* The collection holds any documents create has stored.
InitStore ==
    /\ now = 0
    /\ store \in [Ids -> {NoDoc} \cup {PreSave(NewDoc(i, 0)) : i \in Ids}]
    /\ \A i \in Ids : store[i] # NoDoc => store[i].id = i
    /\ nreq = 0
    /\ pc = [p \in Procs |-> "idle"]
    /\ op = [p \in Procs |-> "none"]
    /\ arg = [p \in Procs |-> NoArg]
    /\ loc = [p \in Procs |-> NoLoc]
    /\ items = [p \in Procs |-> <<>>]
    /\ res = [p \in Procs |-> NoRes]
    /\ stale = [p \in Procs |-> FALSE]
    /\ lastOp = [i \in Ids |-> IF store[i] = NoDoc THEN "none" ELSE "create"]

\* The controller as index.js constructs it: no default filter, an
\* empty omit-list, permanentDeleteData not passed; the schema leaves
\* _id to mongoose, which types it ObjectId.
DefaultConfig ==
    /\ permanentDeleteData = FALSE
    /\ stringIds = FALSE
    /\ omit = {}
    /\ defaultFilter = NoBody

Init == InitStore /\ DefaultConfig /\ reqBound \in BOOLEAN /\ limit = MaxReqsAll

InitGroup == InitStore /\ DefaultConfig /\ reqBound \in BOOLEAN /\ limit = MaxReqs

\* The configurations a caller can give the controller.
InitQuery ==
    /\ InitStore
    /\ reqBound = FALSE
    /\ limit = MaxReqs
    /\ permanentDeleteData \in BOOLEAN
    /\ stringIds = FALSE
    /\ omit \in {{}, {"deleted"}}
    /\ defaultFilter \in {NoBody, FilterOf({"deleted"}, 0, TRUE)}

\* --------------------------------------------------------------- rucc
\* _rucc(queryObject, callBack), lines 924-972.
\* Line 927: debugLogReq(req, ...) names `req`, which _rucc does not
\* bind; unless the host defines a global of that name the call throws a
\* ReferenceError before findOne is issued.
\* The findOne callback: snapshot, callBack(result), then
\*  - a thenable result: newResult.then(...).exec() -- a promise has no
\*    exec, the TypeError rejects the call; the query built later inside
\*    the then-callback is never executed nor returned;
\*  - otherwise findOneAndUpdate(snapshot, newResult) is issued.
Rucc(p, TF, ASYNC) ==
    \E i \in Ids, t \in TF, a \in ASYNC :
        /\ Begin(p, "rucc")
        /\ IF ~reqBound
           THEN Done(p, i, [NoRes EXCEPT !.out = "throw"])
           ELSE IF ~Live(store, i)
           THEN Done(p, i, [NoRes EXCEPT !.out = "null"])
           ELSE Goto(p, IF a THEN "rucc_deferred" ELSE "rucc_write",
                     [NoArg EXCEPT !.id = i, !.tf = t, !.async = a],
                     [snap |-> store[i], new |-> CallBack(t, store[i])])
        /\ UNCHANGED <<store, Config, items, lastOp>>

\* Lines 941-946: the deferred transform resolves; the callback builds a
\* findOneAndUpdate query and drops it (no exec, no callback, no return).
\* The call was rejected by the TypeError of .exec() on the promise.
RuccDeferred(p) ==
    /\ pc[p] = "rucc_deferred"
    /\ Done(p, arg[p].id, [NoRes EXCEPT !.out = "typeerror_exec", !.doc = loc[p].snap])
    /\ UNCHANGED <<store, Config, nreq, op, items, stale, lastOp>>

\* findOneAndUpdate(snapshot, newResult, {upsert: false}): the store's
\* atomic compare-and-set on the whole snapshot.
SnapshotMatches(st, snap) == Present(st, snap.id) /\ st[snap.id] = snap

\* The document findOneAndUpdate leaves in the store. No save hook runs
\* for findOneAndUpdate: the document is stored as callBack left it.
RuccCommit(st, d) == [st EXCEPT ![d.id] = d]

\* Lines 957-968: the conditional update and its then-callback. On no
\* match self.___rucc is called, which is not a function: the TypeError
\* rejects the call.
RuccWrite(p) ==
    /\ pc[p] = "rucc_write"
    /\ LET i == arg[p].id IN
        IF SnapshotMatches(store, loc[p].snap)
        THEN /\ store' = RuccCommit(store, loc[p].new)
             /\ Done(p, i, [NoRes EXCEPT !.out = "doc", !.doc = loc[p].snap,
                                         !.staleCommit = stale[p]])
             /\ stale' = Touch(p, i)
             /\ lastOp' = [lastOp EXCEPT ![i] = "rucc"]
        ELSE /\ Done(p, i, [NoRes EXCEPT !.out = "typeerror_retry", !.doc = loc[p].snap,
                                         !.misses = 1])
             /\ stale' = [stale EXCEPT ![p] = FALSE]
             /\ UNCHANGED <<store, lastOp>>
    /\ UNCHANGED <<Config, nreq, op, items>>

\* ------------------------------------------------------------- update
\* _update, lines 789-821 (and 822-834 on the paths that do not save):
\* body._id is deleted, the omit-list stripped, the document read lean,
\* merged, compared with what was read, and saved if it differs.
\* The second then-callback without its test of the flag.
ThenAfterNotFoundUnflagged(resSentFlag) == 1

\* Lines 822-836 after NotFound has answered: the second then-callback
\* returns at once if resSentFlag is set; if it were not, document._id
\* of the null document would throw and the catch would answer again.
\* The number of further writes of the response.
ThenAfterNotFound(resSentFlag) == IF resSentFlag THEN 0 ELSE 1

\* On the no-op path (line 815) the first callback returns without a
\* save and the second one logs the audit record and answers Okay.
Update(p, BODIES) ==
    \E i \in Ids, b \in BODIES :
        /\ Begin(p, "update")
        /\ LET bodyData == OmitKeys(OmitKeys(b, {"id"}), omit)
               updated == MergeWith(store[i], bodyData)
           IN  IF ~Live(store, i)
               THEN Done(p, i, [Answer(404) EXCEPT
                                   !.writes = 1 + ThenAfterNotFound(TRUE)])
               ELSE IF IsEqual(updated, store[i])
               THEN Done(p, i, [Answer(200) EXCEPT !.doc = updated, !.audit = TRUE])
               ELSE Goto(p, "upd_save", [NoArg EXCEPT !.id = i, !.body = b],
                         [snap |-> store[i], new |-> updated])
        /\ UNCHANGED <<store, Config, items, lastOp>>

\* A save that checks the version it read, as an optimistic lock would.
SaveWholeIfUnchanged(st, d) ==
    IF Present(st, d.id) /\ st[d.id].version = d.version
    THEN [st EXCEPT ![d.id] = PreSave(d)] ELSE st

\* updated.save(req) of a document built by new self.model(updated) with
\* isNew = false: the pre-save hook runs and every path of the document
\* is written under its _id, whatever the store holds by then.
SaveWhole(st, d) ==
    IF Present(st, d.id) THEN [st EXCEPT ![d.id] = PreSave(d)] ELSE st

\* Lines 820-834. A save that finds its document gone answers by the
\* driver's version: silently, or with a DocumentNotFoundError.
UpdateSave(p) ==
    /\ pc[p] = "upd_save"
    /\ LET i == arg[p].id IN
        /\ store' = SaveWhole(store, loc[p].new)
        /\ IF Present(store, i)
           THEN /\ Done(p, i, [Answer(200) EXCEPT
                               !.doc = PreSave(loc[p].new), !.staleCommit = stale[p],
                               !.saved = TRUE, !.audit = TRUE])
                /\ stale' = Touch(p, i)
                /\ lastOp' = [lastOp EXCEPT ![i] = "update"]
           ELSE /\ \E s \in {200, 400} :
                     Done(p, i, [Answer(s) EXCEPT !.saved = TRUE, !.audit = (s = 200)])
                /\ stale' = [stale EXCEPT ![p] = FALSE]
                /\ UNCHANGED lastOp
    /\ UNCHANGED <<Config, nreq, op, items>>

\* ------------------------------------------------------ markAsDeleted
\* _markAsDeleted, lines 889-905 and, when no document is found, lines
\* 906-918: `document` is still null, document._id throws, Error answers.
MarkAsDeleted(p) ==
    \E i \in Ids :
        /\ Begin(p, "markAsDeleted")
        /\ IF Live(store, i)
           THEN Goto(p, "mark_save", [NoArg EXCEPT !.id = i],
                     [snap |-> store[i], new |-> NoDoc])
           ELSE Done(p, i, Answer(400))
        /\ UNCHANGED <<store, Config, items, lastOp>>

\* A save that loses the deleted flag: only the hook's version is written.
SaveVersionOnly(st, d) ==
    IF Present(st, d.id)
    THEN [st EXCEPT ![d.id] = [@ EXCEPT !.version = PreSave(d).version,
                                        !.lastUpdated = PreSave(d).lastUpdated]]
    ELSE st

\* doc.save(req) of a document loaded by findOne with _metadata.deleted
\* set: the modified paths (deleted, and version by the pre-save hook)
\* are written to the stored document.
SaveDeleted(st, d) ==
    IF Present(st, d.id)
    THEN [st EXCEPT ![d.id] = [@ EXCEPT !.deleted = TRUE, !.version = PreSave(d).version,
                                        !.lastUpdated = PreSave(d).lastUpdated]]
    ELSE st

\* Lines 904-915.
MarkSave(p) ==
    /\ pc[p] = "mark_save"
    /\ LET i == arg[p].id IN
        /\ store' = SaveDeleted(store, loc[p].snap)
        /\ IF Present(store, i)
           THEN /\ Done(p, i, [Answer(200) EXCEPT !.staleCommit = stale[p],
                                                   !.saved = TRUE, !.audit = TRUE])
                /\ stale' = Touch(p, i)
                /\ lastOp' = [lastOp EXCEPT ![i] = "markAsDeleted"]
           ELSE /\ \E s \in {200, 400} :
                     Done(p, i, [Answer(s) EXCEPT !.saved = TRUE, !.audit = (s = 200)])
                /\ stale' = [stale EXCEPT ![p] = FALSE]
                /\ UNCHANGED lastOp
    /\ UNCHANGED <<Config, nreq, op, items>>

\* ------------------------------------------------------------ destroy
\* _destroy, lines 856-870 (and 871-879 when nothing is found): the
\* findOne names the _id only.
Destroy(p) ==
    \E i \in Ids :
        /\ Begin(p, "destroy")
        /\ IF Present(store, i)
           THEN Goto(p, "des_remove", [NoArg EXCEPT !.id = i],
                     [snap |-> store[i], new |-> NoDoc])
           ELSE Done(p, i, [Answer(200) EXCEPT !.audit = TRUE])
        /\ UNCHANGED <<store, Config, items, lastOp>>

\* doc.remove(req)
Remove(st, i) == [st EXCEPT ![i] = NoDoc]

\* Lines 869-879.
DestroyRemove(p) ==
    /\ pc[p] = "des_remove"
    /\ LET i == arg[p].id IN
        /\ store' = Remove(store, i)
        /\ stale' = IF Present(store, i) THEN Touch(p, i)
                    ELSE [stale EXCEPT ![p] = FALSE]
        /\ lastOp' = [lastOp EXCEPT ![i] = IF Present(store, i) THEN "destroy" ELSE @]
        /\ Done(p, i, [Answer(200) EXCEPT !.saved = TRUE, !.audit = TRUE])
    /\ UNCHANGED <<Config, nreq, op, items>>

\* --------------------------------------------------------------- show
\* _show, lines 486-517.  Called as a route handler, show has no
\* options.resHandler (h = FALSE) and answers the document or NotFound.
\* Called with one (h = TRUE), the handler is given the document, or ""
\* and 404, and what it returns is answered by Okay, with status 200;
\* the handler here returns what it was given and sends nothing.
Show(p, HANDLERS) ==
    \E i \in Ids, h \in HANDLERS :
        /\ Begin(p, "show")
        /\ LET r == [Answer(0) EXCEPT !.after = lastOp[i], !.handler = h]
           IN  IF Live(store, i)
               THEN Done(p, i, [r EXCEPT !.status = 200, !.doc = store[i]])
               ELSE Done(p, i, [r EXCEPT !.status = IF h THEN 200 ELSE 404])
        /\ UNCHANGED <<store, Config, items, lastOp>>

\* ------------------------------------------------------------- create
\* _create without upsert on a single object, lines 591-657, and
\* saveDocument, lines 59-69: new model(doc) applies the schema
\* defaults and assigns an unused _id if the body names none, save runs
\* the pre-save hook and inserts; an _id that is already stored fails
\* with a duplicate key error (status 400).
Insert(st, d) == [st EXCEPT ![d.id] = PreSave(d)]

\* The clock as new model(doc) read it for the schema defaults: the
\* pre-save hook reads it again when save runs, by when it may have
\* moved on.
Constructed == {t \in 0..now : now - t <= 1}

Create(p, BODIES) ==
    \E b \in BODIES :
        /\ Begin(p, "create")
        /\ \E i \in Ids, t \in Constructed :
            /\ IF "id" \in b.keys THEN i = b.id ELSE ~Present(store, i)
            /\ IF Present(store, i)
               THEN /\ t = now
                    /\ Done(p, i, [Answer(400) EXCEPT !.saved = TRUE, !.audit = TRUE])
                    /\ UNCHANGED <<store, lastOp>>
               ELSE LET d == MergeWith([NewDoc(i, 0) EXCEPT !.createdAt = t], b) IN
                    /\ store' = Insert(store, d)
                    /\ Done(p, i, [Answer(200) EXCEPT !.saved = TRUE, !.audit = TRUE,
                                   !.doc = PreSave(d)])
                    /\ lastOp' = [lastOp EXCEPT ![i] = "create"]
        /\ UNCHANGED <<Config, items>>

\* The bodies of create: a single object or an array of elements, each
\* naming its _id.
Batch(isArray, elems) == [array |-> isArray, elems |-> elems]

Batches ==
    {Batch(FALSE, <<BodyId(i, MaxVal)>>) : i \in Ids}
        \cup {Batch(TRUE, <<>>), Batch(TRUE, <<BodyId("a", MaxVal)>>)}
        \cup {Batch(TRUE, <<BodyId("a", MaxVal), BodyId(j, 0)>>) : j \in Ids}

\* _create, lines 591-625, and createDocument / saveDocument, lines
\* 59-99, up to the save of every element. With upsert the documents
\* stored under the ids of the body are read first (the find names no
\* deleted flag). saveDocument then builds new model(doc) per element
\* and looks its _id up in the ids of the documents read with
\* Array.indexOf, which compares with ===: a String _id is found, an
\* ObjectId (a fresh object per cast) never is. A found element is
\* merged into the document read and saved as an update, any other is
\* saved as a new document. All saves are issued before any answers.
CreateBatch(p, BATCHES, UPSERTS) ==
    \E bt \in BATCHES, u \in UPSERTS :
        /\ Begin(p, "create")
        /\ Goto(p, "create_many",
                [NoArg EXCEPT !.array = bt.array, !.upsert = u,
                              !.ids = [k \in DOMAIN bt.elems |-> bt.elems[k].id]],
                NoLoc)
        /\ LET elems == bt.elems
               docIds == {elems[k].id : k \in DOMAIN elems}
               documents == IF u THEN {i \in docIds : Present(store, i)} ELSE {}
           IN  items' = [items EXCEPT ![p] =
                   [k \in DOMAIN elems |->
                       IF stringIds /\ elems[k].id \in documents
                       THEN Item(elems[k].id, "save",
                                 MergeWith(store[elems[k].id], elems[k]), 0)
                       ELSE Item(elems[k].id, "insert",
                                 MergeWith(NewDoc(elems[k].id, 0), elems[k]), 0)]]
        /\ UNCHANGED <<store, Config, lastOp>>

\* saveDocument, lines 62-68 and 75-81: the save of one element and its
\* outcome; a new document whose _id is stored already fails with a
\* duplicate key error.
CreateSave(p) ==
    /\ pc[p] = "create_many"
    /\ \E k \in DOMAIN items[p] :
        LET it == items[p][k]
            d == it.doc
        IN  /\ it.st \in {"insert", "save"}
            /\ IF it.st = "insert" /\ Present(store, d.id)
               THEN /\ items' = [items EXCEPT ![p][k] =
                                   Settled(items[p], Item(d.id, "done", d, 400))]
                    /\ UNCHANGED <<store, stale, lastOp>>
               ELSE IF it.st = "insert" \/ Present(store, d.id)
               THEN /\ store' = IF it.st = "insert" THEN Insert(store, d)
                                                    ELSE SaveWhole(store, d)
                    /\ items' = [items EXCEPT ![p][k] =
                                   Settled(items[p], Item(d.id, "done", PreSave(d), 200))]
                    /\ stale' = Touch(p, d.id)
                    /\ lastOp' = [lastOp EXCEPT ![d.id] =
                                    IF it.st = "insert" THEN "create" ELSE "upsert"]
               ELSE /\ \E n \in {200, 400} :
                         items' = [items EXCEPT ![p][k] =
                                      Settled(items[p], Item(d.id, "done", d, n))]
                    /\ UNCHANGED <<store, stale, lastOp>>
    /\ UNCHANGED <<Config, nreq, pc, op, arg, loc, res>>

\* A batch that answers 400 as soon as one element failed.
CreateStatusAllOrNothing(its, isArray) ==
    IF \E k \in DOMAIN its : its[k].status = 400 THEN 400 ELSE 200

\* Lines 634-656: the status of the answer.
CreateStatus(its, isArray) ==
    IF \E k \in DOMAIN its : its[k].status = 400
    THEN IF isArray
         THEN IF \A k \in DOMAIN its : its[k].status = 400 THEN 400 ELSE 207
         ELSE 400
    ELSE 200

\* Lines 626-656: Promise.all of the saves has resolved; the audit record
\* is logged and the answer written.
CreateJoin(p) ==
    /\ pc[p] = "create_many"
    /\ \A k \in DOMAIN items[p] : items[p][k].st = "done"
    /\ Done(p, "none", [Answer(CreateStatus(items[p], arg[p].array)) EXCEPT
           !.audit = TRUE, !.saved = TRUE, !.n = Len(items[p]),
           !.list = PromiseAll(items[p]),
           !.docs = {items[p][k].doc : k \in {x \in DOMAIN items[p] : items[p][x].status = 200}}])
    /\ items' = [items EXCEPT ![p] = <<>>]
    /\ UNCHANGED <<store, Config, nreq, op, stale, lastOp>>

\* --------------------------------------------------------- bulkUpdate
\* _bulkUpdate, lines 722-731: one _updateMapper per listed id, all
\* issued before any answers.
BulkUpdate(p, IDSEQS, BODIES) ==
    \E ids \in IDSEQS, b \in BODIES :
        /\ Begin(p, "bulkUpdate")
        /\ Goto(p, "bulk_upd", [NoArg EXCEPT !.ids = ids, !.body = b], NoLoc)
        /\ items' = [items EXCEPT ![p] =
               [k \in 1..Len(ids) |-> Item(ids[k], "read", NoDoc, 0)]]
        /\ UNCHANGED <<store, Config, lastOp>>

\* _updateMapper, lines 685-702: the findOne callback of one id. The
\* payload is merged as it came (no key is stripped).
UpdateMapperRead(it, st, body) ==
    LET updated == MergeWith(st[it.id], body)
    IN  IF ~Live(st, it.id) THEN Item(it.id, "done", NoDoc, 404)
        ELSE IF IsEqual(st[it.id], updated) THEN Item(it.id, "done", updated, 200)
        ELSE Item(it.id, "save", updated, 0)

BulkUpdateRead(p) ==
    /\ pc[p] = "bulk_upd"
    /\ \E k \in DOMAIN items[p] :
        /\ items[p][k].st = "read"
        /\ LET it == UpdateMapperRead(items[p][k], store, arg[p].body)
           IN  items' = [items EXCEPT ![p][k] =
                   IF it.st = "done" THEN Settled(items[p], it) ELSE it]
    /\ UNCHANGED <<store, Config, nreq, pc, op, arg, loc, res, stale, lastOp>>

\* _updateMapper, lines 700-717: updated.save(req) and its callback.
BulkUpdateSave(p) ==
    /\ pc[p] = "bulk_upd"
    /\ \E k \in DOMAIN items[p] :
        LET d == items[p][k].doc IN
        /\ items[p][k].st = "save"
        /\ store' = SaveWhole(store, d)
        /\ IF Present(store, d.id)
           THEN /\ items' = [items EXCEPT ![p][k] =
                               Settled(items[p], [Item(@.id, "done", PreSave(d), 200)
                                                     EXCEPT !.audit = TRUE])]
                /\ stale' = Touch(p, d.id)
                /\ lastOp' = [lastOp EXCEPT ![d.id] = "bulkUpdate"]
           ELSE /\ \E s \in {200, 400} :
                     items' = [items EXCEPT ![p][k] =
                                  Settled(items[p], [Item(@.id, "done", d, s)
                                                        EXCEPT !.audit = (s = 200)])]
                /\ UNCHANGED <<stale, lastOp>>
    /\ UNCHANGED <<Config, nreq, pc, op, arg, loc, res>>

\* A batch that answers 400 unless every id succeeded.
BatchStatusAllOrNothing(its) ==
    IF \A k \in DOMAIN its : its[k].status = 200 THEN 200 ELSE 400

\* The status of a batch: lines 732-740.
BatchStatus(its) ==
    IF \A k \in DOMAIN its : its[k].status = 200 THEN 200
    ELSE IF \A k \in DOMAIN its : its[k].status # 200 THEN 400
    ELSE 207

\* Promise.all(promises).then(...), lines 732-740.
BulkUpdateJoin(p) ==
    /\ pc[p] = "bulk_upd"
    /\ \A k \in DOMAIN items[p] : items[p][k].st = "done"
    /\ Done(p, "none", [Answer(BatchStatus(items[p])) EXCEPT
           !.audit = \E k \in DOMAIN items[p] : items[p][k].audit,
           !.n = Len(items[p]),
           !.list = PromiseAll(items[p]),
           !.docs = {items[p][k].doc : k \in {x \in DOMAIN items[p] : items[p][x].audit}}])
    /\ items' = [items EXCEPT ![p] = <<>>]
    /\ UNCHANGED <<store, Config, nreq, op, stale, lastOp>>

\* --------------------------------------------------------- bulkUpload
\* An uploaded file: whether the request carries one, and the rows
\* after the header row. A row names its _id and val; NoBody is a line
\* with no comma.
Upload(has, rows) == [file |-> has, rows |-> rows]

Uploads ==
    {Upload(FALSE, <<>>), Upload(TRUE, <<>>), Upload(TRUE, <<NoBody, BodyId("b", 0)>>)}
        \cup {Upload(TRUE, <<BodyId("a", MaxVal), BodyId(j, 0)>>) : j \in Ids}
        \cup {Upload(TRUE, <<BodyId("a", MaxVal), NoBody, BodyId("b", 0)>>)}

\* Lines 756-759: the rows that split into more than one value.
Products(rows) == SelectSeq(rows, LAMBDA el : el # NoBody)

\* _bulkUpload, lines 747-760 and 765-768: the rows kept are turned into
\* objects and one _bulkPersist is issued per object, all before any
\* answers; a request without a file throws at line 750 and is
\* answered 400.
BulkUpload(p, UPLOADS) ==
    \E up \in UPLOADS :
        /\ Begin(p, "bulkUpload")
        /\ IF up.file
           THEN LET products == Products(up.rows)
                IN  /\ Goto(p, "bulk_up",
                            [NoArg EXCEPT !.ids = [k \in DOMAIN products |-> products[k].id]],
                            NoLoc)
                    /\ items' = [items EXCEPT ![p] =
                           [k \in DOMAIN products |->
                               Item(products[k].id, "insert",
                                    MergeWith(NewDoc(products[k].id, 0), products[k]), 0)]]
           ELSE /\ Done(p, "none", Answer(400))
                /\ UNCHANGED items
        /\ UNCHANGED <<store, Config, lastOp>>

\* _bulkPersist, lines 770-780: model.create(el, callback) saves a new
\* document; the promise resolves to the document or, for an _id that
\* is stored already, to the error.
BulkPersist(p) ==
    /\ pc[p] = "bulk_up"
    /\ \E k \in DOMAIN items[p] :
        LET d == items[p][k].doc IN
        /\ items[p][k].st = "insert"
        /\ IF Present(store, d.id)
           THEN /\ items' = [items EXCEPT ![p][k] =
                               Settled(items[p], Item(d.id, "done", d, 400))]
                /\ UNCHANGED <<store, stale, lastOp>>
           ELSE /\ store' = Insert(store, d)
                /\ items' = [items EXCEPT ![p][k] =
                               Settled(items[p], Item(d.id, "done", PreSave(d), 200))]
                /\ stale' = Touch(p, d.id)
                /\ lastOp' = [lastOp EXCEPT ![d.id] = "bulkUpload"]
    /\ UNCHANGED <<Config, nreq, pc, op, arg, loc, res>>

\* Lines 760-764: Promise.all of the persists has resolved; the array
\* of documents and errors is answered with status 200.
BulkUploadJoin(p) ==
    /\ pc[p] = "bulk_up"
    /\ \A k \in DOMAIN items[p] : items[p][k].st = "done"
    /\ Done(p, "none", [Answer(200) EXCEPT
           !.saved = TRUE, !.n = Len(items[p]),
           !.list = PromiseAll(items[p]),
           !.docs = {items[p][k].doc : k \in {x \in DOMAIN items[p] : items[p][x].status = 200}}])
    /\ items' = [items EXCEPT ![p] = <<>>]
    /\ UNCHANGED <<store, Config, nreq, op, stale, lastOp>>

\* ------------------------------------- bulkDestroy, bulkMarkAsDeleted
\* The documents find({_id: {$in: ids}, '_metadata.deleted': false})
\* returns, in the store's order.
RECURSIVE FoundLive(_, _, _)
FoundLive(st, idset, todo) ==
    IF todo = {} THEN <<>>
    ELSE LET i == CHOOSE x \in todo : \A y \in todo : x = y \/ x = "a" \/ y # "a"
         IN  (IF i \in idset /\ Live(st, i) THEN <<st[i]>> ELSE <<>>)
             \o FoundLive(st, idset, todo \ {i})

SeqRange(sq) == {sq[k] : k \in DOMAIN sq}

\* bulkRemove, lines 120-135: the find and the fan-out of removeDocument.
BulkRemove(p, type, IDSEQS) ==
    \E ids \in IDSEQS :
        /\ Begin(p, type)
        /\ Goto(p, "bulk_rem", [NoArg EXCEPT !.ids = ids], NoLoc)
        /\ LET docs == FoundLive(store, SeqRange(ids), Ids)
           IN  items' = [items EXCEPT ![p] =
                   [k \in DOMAIN docs |-> Item(docs[k].id, "remove", docs[k], 0)]]
        /\ UNCHANGED <<store, Config, lastOp>>

BulkDestroy(p, IDSEQS) == BulkRemove(p, "bulkDestroy", IDSEQS)

BulkMarkAsDeleted(p, IDSEQS) == BulkRemove(p, "bulkMarkAsDeleted", IDSEQS)

\* removeDocument that resolves without a store call.
RemoveDocumentNot(st, d, type) == st

\* removeDocument without its test of `type`: every document is removed.
RemoveDocumentAlways(st, d, type) == Remove(st, d.id)

\* removeDocument, lines 101-118: the store call of one document: save
\* with the deleted flag set, or remove.
RemoveDocument(st, d, type) ==
    IF type = "bulkMarkAsDeleted" THEN SaveDeleted(st, d) ELSE Remove(st, d.id)

BulkRemoveItem(p) ==
    /\ pc[p] = "bulk_rem"
    /\ \E k \in DOMAIN items[p] :
        LET d == items[p][k].doc IN
        /\ items[p][k].st = "remove"
        /\ store' = RemoveDocument(store, d, op[p])
        /\ IF Present(store, d.id)
           THEN /\ items' = [items EXCEPT ![p][k] = Item(d.id, "done", d, 200)]
                /\ stale' = Touch(p, d.id)
                /\ lastOp' = [lastOp EXCEPT ![d.id] = op[p]]
           ELSE /\ \E s \in {200, 400} :
                     items' = [items EXCEPT ![p][k] = Item(d.id, "done", d, s)]
                /\ UNCHANGED <<stale, lastOp>>
    /\ UNCHANGED <<Config, nreq, pc, op, arg, loc, res>>

\* _.difference(_.uniq(ids), removedIds), line 146: ids are the strings
\* of the request, removedIds the _id values of the documents removed.
\* lodash compares with SameValueZero: a String _id equals the request's
\* string of the same text, an ObjectId equals no string.
Difference(ids, removedIds, strIds) ==
    IF strIds THEN SeqRange(ids) \ removedIds ELSE SeqRange(ids)

\* Lines 136-155: the audit record is logged, and the ids asked for and
\* not found among the ids removed decide the answer: Okay, or an Error
\* whose message lists them.
BulkRemoveJoin(p) ==
    /\ pc[p] = "bulk_rem"
    /\ \A k \in DOMAIN items[p] : items[p][k].st = "done"
    /\ LET removedIds == {items[p][k].id : k \in {x \in DOMAIN items[p] : items[p][x].status = 200}}
           docsNotRemoved == Difference(arg[p].ids, removedIds, stringIds)
       IN  Done(p, "none", [Answer(IF docsNotRemoved = {} THEN 200 ELSE 400)
                               EXCEPT !.audit = TRUE, !.named = docsNotRemoved])
    /\ items' = [items EXCEPT ![p] = <<>>]
    /\ UNCHANGED <<store, Config, nreq, op, stale, lastOp>>

\* ------------------------------------------------------------ queries
\* Whether document d satisfies every key of filter f.
Matches(d, f) ==
    /\ "val" \in f.keys => d.val = f.val
    /\ "deleted" \in f.keys => d.deleted = f.deleted

\* _.assign({}, defaultFilter, filter)
Assign(df, f) ==
    [keys |-> df.keys \cup f.keys, id |-> "none", version |-> 0,
     val |-> IF "val" \in f.keys THEN f.val ELSE df.val,
     deleted |-> IF "deleted" \in f.keys THEN f.deleted ELSE df.deleted,
     createdAt |-> 0]

\* The deleted flag forced before the omit-list is stripped.
BuildFilterForceFirst(f, df, om, perm) ==
    LET merged == Assign(df, f)
        forced == IF perm THEN merged
                  ELSE [merged EXCEPT !.keys = @ \cup {"deleted"}, !.deleted = FALSE]
    IN  OmitKeys(forced, om)

\* Lines 347-352 of _count and 395-400 of _index: the default filter,
\* the request's filter over it, the omit-list stripped, and then the
\* deleted flag forced to false unless permanentDeleteData is set.
BuildFilter(f, df, om, perm) ==
    LET merged == OmitKeys(Assign(df, f), om)
    IN  IF perm THEN merged
        ELSE [merged EXCEPT !.keys = @ \cup {"deleted"}, !.deleted = FALSE]

Find(st, f) == {st[i] : i \in {x \in Ids : Present(st, x) /\ Matches(st[x], f)}}

\* _count, lines 333-361.
Count(p, FILTERS) ==
    \E f \in FILTERS :
        /\ Begin(p, "count")
        /\ LET found == Find(store, BuildFilter(f, defaultFilter, omit, permanentDeleteData))
           IN  Done(p, "none", [Answer(200) EXCEPT !.docs = found,
                                            !.n = Cardinality(found), !.filter = f])
        /\ UNCHANGED <<store, Config, items, lastOp>>

\* _index, lines 371-415 and 460, without the metadata envelope and
\* with a page that holds every match.
Index(p, FILTERS) ==
    \E f \in FILTERS :
        /\ Begin(p, "index")
        /\ LET found == Find(store, BuildFilter(f, defaultFilter, omit, permanentDeleteData))
           IN  Done(p, "none", [Answer(200) EXCEPT !.docs = found,
                                            !.filter = f])
        /\ UNCHANGED <<store, Config, items, lastOp>>

\* query.sort({'_metadata.lastUpdated': -1}): the orders of the documents
\* S by lastUpdated descending; documents of one lastUpdated come in any
\* order.
Sort(S) ==
    {s \in [1..Cardinality(S) -> S] :
        /\ \A j, k \in DOMAIN s : j # k => s[j] # s[k]
        /\ \A j, k \in DOMAIN s : j < k => s[j].lastUpdated >= s[k].lastUpdated}

\* A page that starts at the first document whatever the page number.
SkipLimitFromStart(s, page, count) ==
    IF count = -1 THEN s
    ELSE SubSeq(s, 1, IF count < Len(s) THEN count ELSE Len(s))

\* Lines 384 and 414-415: query.skip(count * (page - 1)).limit(count),
\* or neither when count is -1.
SkipLimit(s, page, count) ==
    IF count = -1 THEN s
    ELSE LET skip == count * (page - 1)
             last == IF skip + count < Len(s) THEN skip + count ELSE Len(s)
         IN  SubSeq(s, skip + 1, last)

\* _index, lines 371-415, with no filter, sort, select or search in the
\* request: page and count (0: not given) take their defaults 1 and 10,
\* the documents the filter selects are sorted by lastUpdated, skipped
\* and limited. Without metadata=true the page is the answer (line
\* 447); with it the two counts follow.
IndexPaged(p, PAGES, COUNTS, METADATA) ==
    \E pg \in PAGES, c \in COUNTS, metadata \in METADATA :
        /\ Begin(p, "index")
        /\ LET page == IF pg # 0 THEN pg ELSE 1
               count == IF c # 0 THEN c ELSE 10
               found == Find(store, BuildFilter(NoBody, defaultFilter, omit,
                                                permanentDeleteData))
           IN  \E s \in Sort(found) :
                   IF metadata
                   THEN Goto(p, "idx_matched", [NoArg EXCEPT !.page = page, !.count = count],
                             [NoLoc EXCEPT !.found = found,
                                           !.data = SkipLimit(s, page, count)])
                   ELSE Done(p, "none", [Answer(200) EXCEPT !.docs = found,
                                            !.data = SkipLimit(s, page, count),
                                            !.page = page, !.count = count])
        /\ UNCHANGED <<store, Config, items, lastOp>>

\* Lines 423-427: this.model.count(filter).
IndexMatched(p) ==
    /\ pc[p] = "idx_matched"
    /\ pc' = [pc EXCEPT ![p] = "idx_total"]
    /\ loc' = [loc EXCEPT ![p].matched =
           Cardinality(Find(store, BuildFilter(NoBody, defaultFilter, omit,
                                               permanentDeleteData)))]
    /\ UNCHANGED <<store, Config, nreq, op, arg, items, res, stale, lastOp>>

\* Lines 427-447: this.model.count() of every stored document, then the
\* envelope {_metadata: {page, count, matched, totalCount}, data}.
IndexTotal(p) ==
    /\ pc[p] = "idx_total"
    /\ Done(p, "none", [Answer(200) EXCEPT !.envelope = TRUE, !.docs = loc[p].found,
                           !.data = loc[p].data,
                           !.page = arg[p].page, !.count = arg[p].count,
                           !.matched = loc[p].matched,
                           !.totalCount = Cardinality({i \in Ids : Present(store, i)})])
    /\ UNCHANGED <<store, Config, nreq, op, items, stale, lastOp>>

\* The filter parameter as a string, in the units of its JSON text. The
\* texts of this model hold a number under "val" and a boolean under
\* "_metadata.deleted".
ValUnit(v) == ToString(v)

Texts ==
    {<<"{", "}">>, <<"{", "\"val\"", ":", ValUnit(MaxVal), "}">>,
     <<"{", "\"_metadata.deleted\"", ":", "true", "}">>,
     <<"{", "\"val\"", ":", ValUnit(0), ",", "\"_metadata.deleted\"", ":", "false", "}">>}

\* Strings that are no JSON text: an object left open, a key without
\* quotes, a comma with no member after it, a member outside an object.
Malformed ==
    {<<"{">>, <<"{", "val", ":", ValUnit(MaxVal), "}">>,
     <<"{", "\"val\"", ":", ValUnit(MaxVal), ",", "}">>,
     <<"\"val\"", ":", ValUnit(MaxVal)>>}

\* JSON.parse of the members of an object: key : value, separated by
\* commas. ok is false where JSON.parse throws a SyntaxError.
RECURSIVE ParseMembers(_, _)
ParseMembers(units, f) ==
    IF Len(units) < 3 \/ units[2] # ":" THEN [ok |-> FALSE, f |-> NoBody]
    ELSE LET isVal == units[1] = "\"val\"" /\ \E v \in Vals : ValUnit(v) = units[3]
             isDeleted == units[1] = "\"_metadata.deleted\"" /\ units[3] \in {"true", "false"}
             g == IF isVal
                  THEN [f EXCEPT !.keys = @ \cup {"val"},
                                 !.val = CHOOSE v \in Vals : ValUnit(v) = units[3]]
                  ELSE [f EXCEPT !.keys = @ \cup {"deleted"}, !.deleted = (units[3] = "true")]
         IN  IF ~isVal /\ ~isDeleted THEN [ok |-> FALSE, f |-> NoBody]
             ELSE IF Len(units) = 3 THEN [ok |-> TRUE, f |-> g]
             ELSE IF units[4] = "," THEN ParseMembers(SubSeq(units, 5, Len(units)), g)
             ELSE [ok |-> FALSE, f |-> NoBody]

\* JSON.parse(filter), lines 340 and 388.
JsonParse(text) ==
    IF Len(text) >= 2 /\ text[1] = "{" /\ text[Len(text)] = "}"
    THEN IF Len(text) = 2 THEN [ok |-> TRUE, f |-> NoBody]
         ELSE ParseMembers(SubSeq(text, 2, Len(text) - 1), NoBody)
    ELSE [ok |-> FALSE, f |-> NoBody]

\* A filter parameter that fails to parse fails closed: the filter no
\* document matches.
RequestFilterFailClosed(text) ==
    IF text = <<>> \/ ~JsonParse(text).ok THEN FilterOf({"val"}, MaxVal + 1, FALSE)
    ELSE JsonParse(text).f

\* Lines 336-346 of _count and 374-394 of _index for a string: the empty
\* string is falsy and stands for {}; any other is parsed and
\* normalised (FilterParse leaves numbers and booleans as they are),
\* and a string that fails to parse stands for {}.
RequestFilter(text) ==
    IF text = <<>> \/ ~JsonParse(text).ok THEN NoBody ELSE JsonParse(text).f

\* _count, lines 333-361, with the filter parameter a string; the catch
\* of line 342 logs the error.
CountText(p, TEXTS) ==
    \E text \in TEXTS :
        /\ Begin(p, "count")
        /\ LET f == RequestFilter(text)
               found == Find(store, BuildFilter(f, defaultFilter, omit, permanentDeleteData))
           IN  Done(p, "none", [Answer(200) EXCEPT !.docs = found,
                                   !.n = Cardinality(found), !.filter = f, !.text = text,
                                   !.logged = (text # <<>> /\ ~JsonParse(text).ok)])
        /\ UNCHANGED <<store, Config, items, lastOp>>

\* _index, lines 371-415 and 460, with the filter parameter a string,
\* no search parameter, and a page that holds every match.
IndexText(p, TEXTS) ==
    \E text \in TEXTS :
        /\ Begin(p, "index")
        /\ LET f == RequestFilter(text)
               found == Find(store, BuildFilter(f, defaultFilter, omit, permanentDeleteData))
           IN  Done(p, "none", [Answer(200) EXCEPT !.docs = found,
                                   !.filter = f, !.text = text,
                                   !.logged = (text # <<>> /\ ~JsonParse(text).ok)])
        /\ UNCHANGED <<store, Config, items, lastOp>>

\* _bulkShow, lines 662-681.
BulkShow(p, IDSEQS) ==
    \E ids \in IDSEQS :
        /\ Begin(p, "bulkShow")
        /\ Done(p, "none", [Answer(200) EXCEPT
               !.docs = {store[i] : i \in {x \in SeqRange(ids) : Live(store, x)}}])
        /\ UNCHANGED <<store, Config, items, lastOp>>

\* ---------------------------------------------------------- aggregate
MaxDepth == 2     \* containers nested around the innermost object of a body

invalidAggregationKeys ==
    {"$graphLookup", "$lookup", "$merge", "$out", "$currentOp", "$collStats",
     "$indexStats", "$planCacheStats", "$listLocalSessions", "$listSessions"}

\* The containers a value is nested in: the only element of an array,
\* the second element of an array, the value of a key of an object,
\* and the value of a key of an object that also has a key named
\* "constructor".
Wrappers == {"arr", "sib", "obj", "own"}

Wrap(w, x) ==
    IF w = "arr" THEN Arr(<<x>>)
    ELSE IF w = "sib" THEN Arr(<<Obj(<<Pair("$match", Num)>>), x>>)
    ELSE IF w = "obj" THEN Obj(<<Pair("$facet", x)>>)
    ELSE Obj(<<Pair("constructor", Num), Pair("$facet", x)>>)

RECURSIVE Nest(_, _)
Nest(path, core) ==
    IF path = <<>> THEN core ELSE Wrap(path[1], Nest(Tail(path), core))

\* The bodies of aggregate: a stage with a restricted or an allowed key,
\* or a scalar, in at most MaxDepth containers.
Pipelines ==
    {Nest(path, core) :
        path \in UNION {[1..n -> Wrappers] : n \in 0..MaxDepth},
        core \in {Obj(<<Pair(k, Num)>>) : k \in {"$lookup", "$out", "$match"}} \cup {Num}}

\* The first error thrown among the outcomes rs, "none" if none threw.
FirstThrown(rs) ==
    IF \A k \in DOMAIN rs : rs[k] = "none" THEN "none"
    ELSE rs[CHOOSE k \in DOMAIN rs :
                rs[k] # "none" /\ \A j \in DOMAIN rs : j < k => rs[j] = "none"]

\* validateAggregation, lines 171-184: the key whose error it throws,
\* "none" when it returns true. An array is checked element by element.
\* A value is taken for an object when body.constructor is Object's
\* constructor; a parsed object with an own key "constructor" answers
\* that key's value there, so it is passed without a look at its keys.
\* The keys of an object are visited in order: a restricted key throws,
\* the value of any other key is checked in turn.
RECURSIVE validateAggregation(_)
validateAggregation(body) ==
    IF body.t = "arr"
    THEN FirstThrown([k \in DOMAIN body.v |-> validateAggregation(body.v[k])])
    ELSE IF body.t = "obj" /\ \A k \in DOMAIN body.v : body.v[k].k # "constructor"
    THEN FirstThrown([k \in DOMAIN body.v |->
                        IF body.v[k].k \in invalidAggregationKeys THEN body.v[k].k
                        ELSE validateAggregation(body.v[k])])
    ELSE "none"

\* _aggregate, lines 543-555 and 570-583, called as the route handler:
\* a body that validateAggregation throws on is answered with Error
\* and the message of the error thrown; any other is handed to the
\* store's aggregate.
Aggregate(p, BODIES) ==
    \E body \in BODIES :
        /\ Begin(p, "aggregate")
        /\ LET key == validateAggregation(body)
           IN  IF key # "none"
               THEN Done(p, "none", [Answer(400) EXCEPT !.named = {key}, !.given = body])
               ELSE Goto(p, "agg_run", [NoArg EXCEPT !.given = body], NoLoc)
        /\ UNCHANGED <<store, Config, items, lastOp>>

\* Lines 555-568: this.model.aggregate(aggBody) and the answer.
AggregateRun(p) ==
    /\ pc[p] = "agg_run"
    /\ Done(p, "none", [Answer(200) EXCEPT !.ran = TRUE, !.given = arg[p].given])
    /\ UNCHANGED <<store, Config, nreq, op, items, stale, lastOp>>

\* --------------------------------------------------- filter normaliser
MaxLen == 3       \* characters of a generated filter string

\* IsString that also takes a RegExp for a string.
IsStringOrPattern(val) == val.t \in {"str", "re"}

\* IsString, lines 260-262: val && val.constructor.name === 'String';
\* the empty string is falsy.
IsString(val) == val.t = "str" /\ val.s # <<>>

\* IsArray, lines 272-274.
IsArray(val) == val.t = "arr"

\* IsObject, lines 275-277.
IsObject(val) == val.t = "obj"

\* The characters of the class [-[\]{}()*+?.,\\^$|#\s] of line 266
\* (" " stands for the white space of \s).
MetaChars ==
    {"-", "[", "]", "{", "}", "(", ")", "*", "+", "?", ".", ",", "\\", "^", "$",
     "|", "#", " "}

\* replace(/[...]/g, "\\$&"): a backslash before every such character.
RECURSIVE Escape(_)
Escape(s) ==
    IF s = <<>> THEN <<>>
    ELSE (IF Head(s) \in MetaChars THEN <<"\\", Head(s)>> ELSE <<Head(s)>>)
            \o Escape(Tail(s))

\* CreateRegexp, lines 263-271. charAt(0) of the empty string is "";
\* of a string of one character charAt(0) and charAt(length - 1) are
\* that character; substr(1, length - 2) is the empty string when
\* length - 2 is not positive.
CreateRegexp(str) ==
    IF str.s # <<>> /\ str.s[1] = "/" /\ str.s[Len(str.s)] = "/"
    THEN [Pattern(Escape(SubSeq(str.s, 2, Len(str.s) - 1))) EXCEPT !.k = str.k]
    ELSE str

\* FilterParse, lines 296-308, and ResolveArray, lines 278-290: the
\* value each leaves in the object or array it was given. Both apply
\* the same dispatch to every member or element, with the tests in a
\* different order, of which at most one holds.
RECURSIVE FilterParse(_)
FilterParse(filterParsed) ==
    IF filterParsed.t \in {"obj", "arr"}
    THEN [filterParsed EXCEPT !.v =
            [x \in DOMAIN filterParsed.v |->
                LET el == filterParsed.v[x]
                IN  IF IsString(el) THEN CreateRegexp(el)
                    ELSE IF IsArray(el) \/ IsObject(el) THEN FilterParse(el)
                    ELSE el]]
    ELSE filterParsed

ResolveArray(arr) == FilterParse(arr)

\* The text a RegExp is compiled from, as the units the texts of this
\* model can hold: an escaped character, ^, $, . and plain characters.
RECURSIVE Compile(_)
Compile(src) ==
    IF src = <<>> THEN <<>>
    ELSE IF Head(src) = "\\" /\ Len(src) >= 2
    THEN <<[kind |-> "chr", c |-> src[2]]>> \o Compile(SubSeq(src, 3, Len(src)))
    ELSE IF Head(src) = "^" THEN <<[kind |-> "bol", c |-> ""]>> \o Compile(Tail(src))
    ELSE IF Head(src) = "$" THEN <<[kind |-> "eol", c |-> ""]>> \o Compile(Tail(src))
    ELSE IF Head(src) = "." THEN <<[kind |-> "any", c |-> ""]>> \o Compile(Tail(src))
    ELSE <<[kind |-> "chr", c |-> Head(src)]>> \o Compile(Tail(src))

\* Flag i: letters compare without case.
Fold(c) == IF c = "F" THEN "f" ELSE IF c = "O" THEN "o" ELSE c

RECURSIVE MatchHere(_, _, _)
MatchHere(units, val, pos) ==
    IF units = <<>> THEN TRUE
    ELSE LET u == Head(units)
         IN  IF u.kind = "bol" THEN pos = 1 /\ MatchHere(Tail(units), val, pos)
             ELSE IF u.kind = "eol"
             THEN pos = Len(val) + 1 /\ MatchHere(Tail(units), val, pos)
             ELSE /\ pos <= Len(val)
                  /\ u.kind = "any" \/ Fold(val[pos]) = Fold(u.c)
                  /\ MatchHere(Tail(units), val, pos + 1)

\* new RegExp(src, 'i').test(val), line 267: the pattern matches
\* somewhere in val.
RegExpTest(src, val) ==
    \E pos \in 1..(Len(val) + 1) : MatchHere(Compile(src), val, pos)

\* The filters handed to the normaliser: a key with a string of up to
\* MaxLen characters, or with one of the strings "/^foo/", "foo" and
\* "/^/", and strings under nested objects and arrays next to a number.
Chars == {"/", "f"}

Strings ==
    UNION {[1..n -> Chars] : n \in 0..MaxLen}
        \cup {<<"/", "^", "f", "o", "o", "/">>, <<"f", "o", "o">>, <<"/", "^", "/">>}

NestedFilters ==
    {Obj(<<Pair("n", Num), Pair("$or", Arr(<<Str(s), Obj(<<Pair("name", Str(s))>>)>>))>>) :
        s \in {<<"/", "f", "/">>, <<"/", "/">>}}
        \cup {Obj(<<Pair("a", Obj(<<Pair("b", Arr(<<Arr(<<Str(s)>>), Num>>))>>))>>) :
                s \in {<<"/", "f", "/">>, <<"f">>}}

FilterInputs ==
    {Obj(<<Pair("name", Str(s))>>) : s \in Strings} \cup NestedFilters \cup {Obj(<<>>)}

\* A call of FilterParse: lines 298-306 assign into the object passed
\* in and line 307 returns that object, so the caller's object and the
\* value returned are one.
Normalize(p, FILTERS) ==
    \E f \in FILTERS :
        /\ Begin(p, "FilterParse")
        /\ Done(p, "none", [NoRes EXCEPT !.given = f, !.object = FilterParse(f),
                                         !.value = FilterParse(f)])
        /\ UNCHANGED <<store, Config, items, lastOp>>

\* FilterParse called on the value an earlier call returned.
NormalizeAgain(p) ==
    /\ pc[p] = "done" /\ op[p] \in {"FilterParse", "construct"}
    /\ res[p].value # Undefined
    /\ nreq < limit
    /\ nreq' = nreq + 1
    /\ op' = [op EXCEPT ![p] = "FilterParseAgain"]
    /\ res' = [res EXCEPT ![p] = [NoRes EXCEPT !.given = res[p].value,
                                              !.object = FilterParse(res[p].value),
                                              !.value = FilterParse(res[p].value)]]
    /\ UNCHANGED <<store, Config, pc, arg, loc, items, stale, lastOp>>

\* new CrudController(model, logger, defaultFilter), lines 25-38: line
\* 33 runs FilterParse on the object the caller handed in, or on
\* undefined, and keeps what it returns as this.defaultFilter.
Construct(p, FILTERS) ==
    \E f \in FILTERS \cup {Undefined} :
        /\ Begin(p, "construct")
        /\ Done(p, "none", [NoRes EXCEPT !.given = f, !.object = FilterParse(f),
                                         !.value = FilterParse(f)])
        /\ UNCHANGED <<store, Config, items, lastOp>>

\* ------------------------------------------------------ model factory
\* The request handlers of CrudController.prototype.
PrototypeHandlers ==
    {"_count", "_index", "_show", "_aggregate", "_create", "_bulkShow", "_bulkUpdate",
     "_bulkUpload", "_update", "_destroy", "_bulkDestroy", "_markAsDeleted",
     "_bulkMarkAsDeleted", "_rucc"}

\* index.js, lines 36-48: this.<name> = this.<handler>.bind(this).
Bindings ==
    [index |-> "_index", create |-> "_create", show |-> "_show", update |-> "_update",
     destroy |-> "_destroy", rucc |-> "_rucc", count |-> "_count",
     bulkUpdate |-> "_bulkUpdate", bulkUpload |-> "_bulkUpload", bulkShow |-> "_bulkShow",
     markAsDeleted |-> "_markAsDeleted", bulkDestroy |-> "_bulkDestroy",
     bulkMarkAsDeleted |-> "_bulkMarkAsDeleted"]

\* new MongooseModel(schema, modelName, options), index.js lines 28-50:
\* line 30 reads options.logger, a TypeError when no options object is
\* passed; otherwise the constructor runs through and the object holds a
\* bound function under every name of Bindings whose handler the
\* prototype has.
MongooseModel(p, OPTIONS) ==
    \E options \in OPTIONS :
        /\ Begin(p, "MongooseModel")
        /\ IF options = "undefined"
           THEN Done(p, "none", [NoRes EXCEPT !.out = "TypeError"])
           ELSE Done(p, "none", [NoRes EXCEPT !.out = "object",
                    !.named = {n \in DOMAIN Bindings : Bindings[n] \in PrototypeHandlers}])
        /\ UNCHANGED <<store, Config, items, lastOp>>

\* ----------------------------------------------------- specifications
\* The handlers of single documents, of id lists and of queries, under
\* the default configuration.
Next ==
    \E p \in Procs :
        \/ Rucc(p, {[kind |-> "inc", v |-> 0]}, {FALSE})
        \/ RuccWrite(p)
        \/ Update(p, {BodyVal(MaxVal)}) \/ UpdateSave(p)
        \/ MarkAsDeleted(p) \/ MarkSave(p)
        \/ Destroy(p) \/ DestroyRemove(p)
        \/ Show(p, BOOLEAN)
        \/ Create(p, {BodyVal(0)})
        \/ CreateBatch(p, {Batch(TRUE, <<BodyId("a", MaxVal), BodyId("b", 0)>>)}, {FALSE})
        \/ CreateSave(p) \/ CreateJoin(p)
        \/ BulkUpdate(p, {<<"a", "b">>}, {BodyVal(MaxVal)})
        \/ BulkUpdateRead(p) \/ BulkUpdateSave(p) \/ BulkUpdateJoin(p)
        \/ BulkDestroy(p, {<<"a", "b">>}) \/ BulkMarkAsDeleted(p, {<<"a", "b">>})
        \/ BulkRemoveItem(p) \/ BulkRemoveJoin(p)
        \/ Count(p, {NoBody}) \/ Index(p, {NoBody}) \/ BulkShow(p, {<<"a", "b">>})

Spec == Init /\ [][Next]_vars

\* The single-document writers and show.
NextWrite ==
    \E p \in Procs :
        \/ Rucc(p, {[kind |-> "inc", v |-> 0]}, {FALSE}) \/ RuccWrite(p)
        \/ Update(p, {BodyVal(MaxVal), BodyVersion(0), BodyDeleted(TRUE)})
        \/ UpdateSave(p)
        \/ MarkAsDeleted(p) \/ MarkSave(p)
        \/ Destroy(p) \/ DestroyRemove(p)
        \/ Show(p, BOOLEAN)
        \/ Create(p, {BodyVal(0), BodyId("a", 0)})

SpecWrite == InitGroup /\ [][NextWrite]_vars

\* rucc and the writers it competes with.
NextRucc ==
    \E p \in Procs :
        \/ Rucc(p, Transforms, BOOLEAN) \/ RuccDeferred(p) \/ RuccWrite(p)
        \/ Update(p, ValBodies) \/ UpdateSave(p)
        \/ MarkAsDeleted(p) \/ MarkSave(p)

SpecRucc == InitGroup /\ [][NextRucc]_vars

\* update and bulkUpdate.
NextUpdate ==
    \E p \in Procs :
        \/ Update(p, {BodyVal(MaxVal), BodyDeleted(TRUE), BodyId("b", MaxVal)})
        \/ UpdateSave(p)
        \/ BulkUpdate(p, {<<"a">>, <<"a", "b">>},
                      {BodyVal(MaxVal), BodyDeleted(TRUE), BodyId("b", MaxVal)})
        \/ BulkUpdateRead(p) \/ BulkUpdateSave(p) \/ BulkUpdateJoin(p)

SpecUpdate == InitGroup /\ [][NextUpdate]_vars

\* create with a single object or an array, with and without upsert,
\* under both typings of _id, and destroy.
InitCreate ==
    /\ InitStore
    /\ reqBound = FALSE
    /\ limit = MaxReqs
    /\ permanentDeleteData = FALSE
    /\ stringIds \in BOOLEAN
    /\ omit = {}
    /\ defaultFilter = NoBody

NextCreate ==
    \E p \in Procs :
        \/ CreateBatch(p, Batches, BOOLEAN) \/ CreateSave(p) \/ CreateJoin(p)
        \/ Create(p, {BodyVal(0)})
        \/ Destroy(p) \/ DestroyRemove(p)

SpecCreate == InitCreate /\ [][NextCreate]_vars

\* The operations that answer an array: create with an array body,
\* bulkUpdate and bulkUpload.
NextBulk ==
    \E p \in Procs :
        \/ CreateBatch(p, {Batch(TRUE, <<BodyId("a", MaxVal), BodyId(j, 0)>>) : j \in Ids},
                       {FALSE})
        \/ CreateSave(p) \/ CreateJoin(p)
        \/ BulkUpdate(p, {<<"a", "b">>, <<"b", "a">>}, {BodyVal(MaxVal)})
        \/ BulkUpdateRead(p) \/ BulkUpdateSave(p) \/ BulkUpdateJoin(p)
        \/ BulkUpload(p, Uploads) \/ BulkPersist(p) \/ BulkUploadJoin(p)

SpecBulk == InitGroup /\ [][NextBulk]_vars

\* bulkDestroy and bulkMarkAsDeleted under both typings of _id, and the
\* single soft delete they compete with.
NextRemove ==
    \E p \in Procs :
        \/ BulkDestroy(p, {<<"a">>, <<"a", "b">>, <<"b", "b">>})
        \/ BulkMarkAsDeleted(p, {<<"a">>, <<"a", "b">>, <<"b", "b">>})
        \/ BulkRemoveItem(p) \/ BulkRemoveJoin(p)
        \/ MarkAsDeleted(p) \/ MarkSave(p)

SpecRemove == InitCreate /\ [][NextRemove]_vars

\* aggregate.
NextAggregate ==
    \E p \in Procs :
        \/ Aggregate(p, Pipelines) \/ AggregateRun(p)

SpecAggregate == Init /\ [][NextAggregate]_vars

\* The filter normaliser, called by the constructor and by itself.
NextFilter ==
    \E p \in Procs :
        \/ Normalize(p, FilterInputs) \/ NormalizeAgain(p)
        \/ Construct(p, NestedFilters)

InitFilter == InitStore /\ DefaultConfig /\ reqBound = FALSE /\ limit = MaxReqsAll
                  /\ \A i \in Ids : Present(store, i)

SpecFilter == InitFilter /\ [][NextFilter]_vars

\* count and index with the filter parameter a string, with and
\* without a default filter and permanentDeleteData, and the soft
\* delete.
InitText ==
    /\ InitStore
    /\ reqBound = FALSE
    /\ limit = MaxReqsAll
    /\ permanentDeleteData \in BOOLEAN
    /\ stringIds = FALSE
    /\ omit = {}
    /\ defaultFilter \in {NoBody, FilterOf({"deleted"}, 0, TRUE)}

NextText ==
    \E p \in Procs :
        \/ CountText(p, Texts \cup Malformed \cup {<<>>})
        \/ IndexText(p, Malformed \cup {<<"{", "}">>})
        \/ MarkAsDeleted(p) \/ MarkSave(p)

SpecText == InitText /\ [][NextText]_vars

\* The read handlers and the soft delete, under every configuration.
NextQuery ==
    \E p \in Procs :
        \/ Count(p, Filters) \/ Index(p, Filters) \/ Show(p, BOOLEAN)
        \/ BulkShow(p, {<<"a">>, <<"a", "b">>})
        \/ MarkAsDeleted(p) \/ MarkSave(p)

SpecQuery == InitQuery /\ [][NextQuery]_vars

\* Time passes between any two steps of any handler.
MaxNow == 2

Tick ==
    /\ now < MaxNow
    /\ now' = now + 1
    /\ UNCHANGED <<store, reqBound, permanentDeleteData, stringIds, omit, defaultFilter,
                   limit, nreq, pc, op, arg, loc, items, res, stale, lastOp>>

\* The writers that keep or set the timestamps of _metadata, and show,
\* while the clock runs.
InitTime ==
    /\ InitStore
    /\ reqBound = TRUE
    /\ limit = MaxReqsAll
    /\ permanentDeleteData = FALSE
    /\ stringIds \in BOOLEAN
    /\ omit = {}
    /\ defaultFilter = NoBody

NextTime ==
    \/ Tick
    \/ \E p \in Procs :
        \/ Create(p, {BodyVal(0)})
        \/ Show(p, {FALSE})
        \/ CreateBatch(p, {Batch(TRUE, <<BodyId("a", MaxVal)>>)}, {TRUE})
        \/ CreateSave(p) \/ CreateJoin(p)
        \/ Update(p, {BodyVal(MaxVal), BodyCreatedAt(MaxNow)}) \/ UpdateSave(p)
        \/ BulkUpdate(p, {<<"a", "b">>}, {BodyVal(MaxVal)})
        \/ BulkUpdateRead(p) \/ BulkUpdateSave(p) \/ BulkUpdateJoin(p)
        \/ MarkAsDeleted(p) \/ MarkSave(p)
        \/ Rucc(p, {[kind |-> "inc", v |-> 0]}, {FALSE}) \/ RuccWrite(p)

SpecTime == InitTime /\ [][NextTime]_vars

\* index by pages over a collection whose documents are created and
\* updated while the clock runs.
NextPage ==
    \/ Tick
    \/ \E p \in Procs :
        \/ Create(p, {BodyVal(0)})
        \/ Update(p, {BodyVal(MaxVal)}) \/ UpdateSave(p)
        \/ IndexPaged(p, 0..3, {-1, 0, 1, 2}, {FALSE})

SpecPage == Init /\ [][NextPage]_vars

\* The factory called with and without an options object, and handlers
\* of the objects it built.
NextFactory ==
    \E p \in Procs :
        \/ MongooseModel(p, {"undefined", "object"})
        \/ Create(p, {BodyVal(0)})
        \/ Show(p, {FALSE})
        \/ Count(p, {NoBody})

SpecFactory == InitGroup /\ [][NextFactory]_vars

\* count and index on a controller whose default filter names the
\* domain field, and the update that changes the field.
InitDefault ==
    /\ InitStore
    /\ reqBound = FALSE
    /\ limit = MaxReqs
    /\ permanentDeleteData \in BOOLEAN
    /\ stringIds = FALSE
    /\ omit = {}
    /\ defaultFilter = FilterOf({"val"}, 0, FALSE)

NextDefault ==
    \E p \in Procs :
        \/ Count(p, Filters) \/ Index(p, Filters)
        \/ Update(p, {BodyVal(MaxVal)}) \/ UpdateSave(p)

SpecDefault == InitDefault /\ [][NextDefault]_vars

\* update and bulkUpdate on a controller whose omit-list names the
\* domain field.
InitOmit ==
    /\ InitStore
    /\ reqBound = FALSE
    /\ limit = MaxReqsAll
    /\ permanentDeleteData = FALSE
    /\ stringIds = FALSE
    /\ omit = {"val"}
    /\ defaultFilter = NoBody

NextOmit ==
    \E p \in Procs :
        \/ Update(p, {BodyVal(MaxVal), BodyDeleted(TRUE)}) \/ UpdateSave(p)
        \/ BulkUpdate(p, {<<"a">>, <<"a", "b">>}, {BodyVal(MaxVal), BodyDeleted(TRUE)})
        \/ BulkUpdateRead(p) \/ BulkUpdateSave(p) \/ BulkUpdateJoin(p)

SpecOmit == InitOmit /\ [][NextOmit]_vars

\* index with metadata=true among requests that create, soft-delete and
\* destroy documents.
NextEnvelope ==
    \E p \in Procs :
        \/ IndexPaged(p, {0}, {0, 1}, {TRUE}) \/ IndexMatched(p) \/ IndexTotal(p)
        \/ Create(p, {BodyVal(0)})
        \/ MarkAsDeleted(p) \/ MarkSave(p)
        \/ Destroy(p) \/ DestroyRemove(p)

SpecEnvelope == Init /\ [][NextEnvelope]_vars

\* ------------------------------------------------------------- claims
\* C1: of the rucc calls that read one stored state of a live document,
\* exactly one commits against it: no rucc call commits a value computed
\* from a state that was written over between its read and its write.
C1_OneCommitPerState ==
    \A p \in Procs :
        (op[p] = "rucc" /\ pc[p] = "done" /\ res[p].out = "doc") => ~res[p].staleCommit

\* C2: a rucc call whose conditional update matches no document does not
\* settle on that result: it goes back to read the document again.
C2_MissRetries ==
    [][\A p \in Procs :
          (pc[p] = "rucc_write" /\ pc'[p] # "rucc_write"
              /\ ~SnapshotMatches(store, loc[p].snap))
          => pc'[p] # "done"]_vars

\* C3: when the deferred result of the transform resolves, rucc goes on
\* to issue the conditional update, as it does for a synchronous result.
C3_DeferredThenWrite ==
    [][\A p \in Procs :
          (pc[p] = "rucc_deferred" /\ pc'[p] # "rucc_deferred")
          => pc'[p] = "rucc_write"]_vars

\* C4: a rucc call on an _id that resolves to no live document, and that
\* took no snapshot, has resolved to null: a no-op, not an error.
C4_MissingIsNull ==
    \A p \in Procs :
        (op[p] = "rucc" /\ pc[p] = "done" /\ res[p].doc = NoDoc
            /\ ~Live(store, arg[p].id))
        => res[p].out = "null"

\* C5: a rucc call that lost a race (a conditional update of it matched
\* nothing) never surfaces that as an error: it resolves as a call that
\* committed at once does, to a document (or to null, the document gone).
C5_LostRaceIsNoError ==
    \A p \in Procs :
        (op[p] = "rucc" /\ pc[p] = "done" /\ res[p].misses > 0)
        => res[p].out \in {"doc", "null"}

\* C6: every step that changes a stored document increases its version
\* by exactly 1.
C6_VersionPlusOne ==
    [][\A i \in Ids :
          (Present(store, i) /\ Present(store', i) /\ store'[i] # store[i])
          => store'[i].version = store[i].version + 1]_vars

\* C7: the save of update and of bulkUpdate commits whatever was written
\* since the document was read: the stored document becomes the merged
\* document the request computed from its own read, and the request is
\* acknowledged.
C7_SaveOverwrites ==
    [][\A p \in Procs :
          /\ (pc[p] = "upd_save" /\ pc'[p] = "done" /\ Present(store, arg[p].id))
             => (store'[arg[p].id] = PreSave(loc[p].new) /\ res'[p].status = 200)
          /\ \A k \in DOMAIN items[p] :
                (pc[p] = "bulk_upd" /\ pc'[p] = "bulk_upd"
                    /\ items[p][k].st = "save" /\ items'[p][k].st = "done"
                    /\ Present(store, items[p][k].doc.id))
                => (store'[items[p][k].doc.id] = PreSave(items[p][k].doc)
                    /\ items'[p][k].status = 200)]_vars

\* A lost write: two acknowledged updates of one document, the second
\* saved over the first from a read older than it, and the value the
\* first one set is no longer stored.
C7_LostWrite ==
    \E p \in Procs, q \in Procs :
        /\ p # q /\ op[p] = "update" /\ op[q] = "update"
        /\ pc[p] = "done" /\ pc[q] = "done"
        /\ res[p].status = 200 /\ res[q].status = 200
        /\ arg[p].id = arg[q].id
        /\ res[q].staleCommit
        /\ res[p].doc.val = MaxVal
        /\ res[q].doc = store[arg[q].id]
        /\ store[arg[q].id].val # MaxVal

C10_OnlyDestroyRemoves ==
    [][\A i \in Ids :
          (Present(store, i) /\ ~Present(store', i))
          => \E p \in Procs :
                \/ pc[p] = "des_remove" /\ pc'[p] = "done" /\ arg[p].id = i
                \/ /\ pc[p] = "bulk_rem" /\ op[p] = "bulkDestroy"
                   /\ \E k \in DOMAIN items[p] :
                        items[p][k].id = i /\ items[p][k].st = "remove"]_vars

\* Both soft deletes have committed and their documents are still stored.
C10_SoftDeletedKept ==
    \E i \in Ids, j \in Ids :
        /\ lastOp[i] = "markAsDeleted" /\ Present(store, i) /\ store[i].deleted
        /\ lastOp[j] = "bulkMarkAsDeleted" /\ Present(store, j) /\ store[j].deleted

\* C11: a step removes a document from the store only if the document
\* is not soft-deleted: a document with deleted = true stays stored.
C11_DeletedNotRemoved ==
    [][\A i \in Ids :
          (Present(store, i) /\ ~Present(store', i)) => ~store[i].deleted]_vars

\* C12: update and bulkUpdate go on to save a document only if merging
\* the payload (without _id and the omit-list for update) into the
\* document read changes it; a request answered without that save left
\* the store as it was.
C12_NoOpNoWrite ==
    [][\A p \in Procs :
          /\ (pc[p] # "upd_save" /\ pc'[p] = "upd_save")
             => MergeWith(store[arg'[p].id], OmitKeys(arg'[p].body, {"id"} \cup omit))
                    # store[arg'[p].id]
          /\ (op'[p] = "update" /\ pc'[p] = "done" /\ ~res'[p].saved /\ res'[p] # res[p])
             => store' = store
          /\ \A k \in DOMAIN items[p] :
                (pc[p] = "bulk_upd" /\ pc'[p] = "bulk_upd" /\ items[p][k].st = "read")
                => /\ items'[p][k].st = "save"
                      => MergeWith(store[items[p][k].id], arg[p].body)
                             # store[items[p][k].id]
                   /\ items'[p][k].st = "done" => store' = store]_vars

\* An update that changed nothing was answered 200 with the document as
\* it is stored, and no save was issued for it.
C12_NoOpAnswered ==
    \E p \in Procs :
        /\ op[p] = "update" /\ pc[p] = "done"
        /\ res[p].status = 200 /\ ~res[p].saved
        /\ Live(store, arg[p].id)
        /\ res[p].doc = store[arg[p].id]
        /\ store[arg[p].id].val = MaxVal

\* C13: an update that took the no-op short-circuit (answered 200
\* without a save) logged no audit record.
C13_NoOpNoAudit ==
    \A p \in Procs :
        (op[p] = "update" /\ pc[p] = "done" /\ res[p].status = 200 /\ ~res[p].saved)
        => ~res[p].audit

\* C14: the save of update and of bulkUpdate writes the document it was
\* addressed to and no other: a payload's _id names no document that the
\* request creates or modifies.
C14_PayloadIdDiscarded ==
    [][\A p \in Procs :
          /\ (pc[p] = "upd_save" /\ pc'[p] = "done")
             => \A i \in Ids \ {arg[p].id} : store'[i] = store[i]
          /\ \A k \in DOMAIN items[p] :
                (pc[p] = "bulk_upd" /\ pc'[p] = "bulk_upd"
                    /\ items[p][k].st = "save" /\ items'[p][k].st = "done")
                => \A i \in Ids \ {items[p][k].id} : store'[i] = store[i]]_vars

C16_RemoveNotFound ==
    [][\A p \in Procs :
          (/\ nreq' # nreq
           /\ <<pc[p], op[p], arg[p], res[p]>>' # <<pc[p], op[p], arg[p], res[p]>>
           /\ op'[p] \in {"destroy", "markAsDeleted"}
           /\ (store[arg'[p].id] = NoDoc \/ store[arg'[p].id].deleted))
          => /\ pc'[p] = "done"
             /\ res'[p].status = 404 /\ res'[p].doc = NoDoc]_vars

C19_UpsertMerges ==
    [][\A p \in Procs :
          (pc[p] # "create_many" /\ pc'[p] = "create_many" /\ arg'[p].upsert)
          => \A k \in DOMAIN items'[p] :
                LET it == items'[p][k]
                IN  IF Present(store, it.id)
                    THEN it.st = "save" /\ it.doc.version = store[it.id].version
                    ELSE it.st = "insert"]_vars

C20_BulkUpdateIndependent ==
    [][\A p \in Procs :
          /\ \A k \in DOMAIN items[p] :
                (pc[p] = "bulk_upd" /\ pc'[p] = "bulk_upd"
                    /\ items'[p][k] # items[p][k])
                => /\ \A j \in DOMAIN items[p] \ {k} : items'[p][j] = items[p][j]
                   /\ items[p][k].st = "read"
                      => (items'[p][k].status = 404
                            <=> (store[items[p][k].id] = NoDoc
                                    \/ store[items[p][k].id].deleted))
                   /\ (items[p][k].st = "save" /\ Present(store, items[p][k].doc.id))
                      => items'[p][k].status = 200
          /\ (pc[p] = "bulk_upd" /\ pc'[p] = "done")
             => /\ store' = store
                /\ res'[p].status =
                      IF \A k \in DOMAIN items[p] : items[p][k].status = 200 THEN 200
                      ELSE IF \A k \in DOMAIN items[p] : items[p][k].status # 200 THEN 400
                      ELSE 207]_vars

\* A bulkUpdate of two ids was answered 207: one id was not found and
\* the update of the other is stored.
C20_PartialBulkUpdate ==
    \E p \in Procs :
        /\ op[p] = "bulkUpdate" /\ pc[p] = "done"
        /\ res[p].status = 207 /\ res[p].n = 2
        /\ \E d \in res[p].docs : store[d.id] = d /\ lastOp[d.id] = "bulkUpdate"

\* C21: create with an array body, bulkUpdate and bulkUpload settle
\* their elements in any order, and the array they answer has one entry
\* per input (element, id, or retained upload row), the i-th entry being
\* the outcome of the i-th input.
C21_ResultInInputOrder ==
    [][\A p \in Procs :
          (pc[p] \in {"create_many", "bulk_upd", "bulk_up"} /\ pc'[p] = "done"
              /\ (op[p] = "create" => arg[p].array))
          => /\ Len(res'[p].list) = Len(arg[p].ids)
             /\ \A k \in DOMAIN arg[p].ids :
                   /\ res'[p].list[k].id = arg[p].ids[k]
                   /\ res'[p].list[k].status = items[p][k].status
                   /\ res'[p].list[k].doc = items[p][k].doc]_vars

\* A create or a bulkUpload answered two inputs of one _id of which the
\* second had settled first: the second was stored, the first then
\* failed on the duplicate, and the answer lists the failure first.
C21_SecondSettledFirst ==
    \E p \in Procs :
        /\ pc[p] = "done" /\ op[p] \in {"create", "bulkUpload"}
        /\ Len(res[p].list) = 2
        /\ res[p].list[1].id = res[p].list[2].id
        /\ res[p].list[1].status = 400 /\ res[p].list[2].status = 200
        /\ store[res[p].list[2].id] = res[p].list[2].doc

\* C22: bulkDestroy and bulkMarkAsDeleted answer 200 exactly when every
\* distinct id of the request resolved to a document that was removed
\* (soft-deleted), and otherwise answer an error whose message names
\* exactly the requested ids that were not removed.
C22_AllOrError ==
    [][\A p \in Procs :
          (pc[p] = "bulk_rem" /\ pc'[p] = "done")
          => LET removed == {items[p][k].id :
                                k \in {x \in DOMAIN items[p] : items[p][x].status = 200}}
                 notRemoved == SeqRange(arg[p].ids) \ removed
             IN  IF notRemoved = {}
                 THEN res'[p].status = 200
                 ELSE res'[p].status = 400 /\ res'[p].named = notRemoved]_vars

\* C23: a bulkDestroy that answers an error has rolled nothing back:
\* the remove of each document found takes it out of the store whatever
\* becomes of the other ids, the answer changes no document, and the
\* error names every requested id that had no live document.
C23_NoRollback ==
    [][\A p \in Procs :
          (pc[p] = "bulk_rem" /\ op[p] = "bulkDestroy")
          => /\ \A k \in DOMAIN items[p] :
                   (items[p][k].st = "remove" /\ items'[p][k].st = "done")
                   => /\ store'[items[p][k].id] = NoDoc
                      /\ \A j \in Ids \ {items[p][k].id} : store'[j] = store[j]
             /\ (pc'[p] = "done" /\ res'[p].status = 400)
                => /\ store' = store
                   /\ SeqRange(arg[p].ids) \ {items[p][k].id : k \in DOMAIN items[p]}
                         \subseteq res'[p].named]_vars

\* A bulkDestroy of a and b answered an error that names b alone, and
\* a, which it removed, is gone.
C23_OthersGone ==
    \E p \in Procs :
        /\ op[p] = "bulkDestroy" /\ pc[p] = "done"
        /\ res[p].status = 400 /\ res[p].named = {"b"}
        /\ lastOp["a"] = "bulkDestroy" /\ store["a"] = NoDoc

\* The keys of a body at every depth of its arrays and objects.
RECURSIVE KeysOf(_)
KeysOf(body) ==
    IF body.t = "arr" THEN UNION {KeysOf(body.v[k]) : k \in DOMAIN body.v}
    ELSE IF body.t = "obj"
    THEN UNION {{body.v[k].k} \cup KeysOf(body.v[k]) : k \in DOMAIN body.v}
    ELSE {}

\* C24: an aggregate request whose body holds a restricted key at any
\* depth is answered with an error that names one such key of the body
\* and the store's aggregate is not called for it; a body with no
\* restricted key is handed to the store.
C24_DenylistEnforced ==
    \A p \in Procs :
        (op[p] = "aggregate" /\ pc[p] = "done")
        => LET restricted == KeysOf(res[p].given) \cap invalidAggregationKeys
           IN  IF restricted # {}
               THEN /\ ~res[p].ran
                    /\ res[p].status = 400
                    /\ \E k \in restricted : res[p].named = {k}
               ELSE res[p].ran

\* The values a pattern is tried on.
TestValues ==
    {<<>>, <<"f">>, <<"f", "o">>, <<"f", "o", "o">>, <<"F", "O", "O">>,
     <<"f", "o", "o", "d">>, <<"x", "f", "o", "o">>, <<"^", "f", "o", "o">>,
     <<"x", "^", "F", "o", "o">>, <<"/">>, <<"/", "^", "f", "o", "o", "/">>}

\* The calls of the normaliser that have returned.
Normalized(p) ==
    pc[p] = "done" /\ op[p] \in {"FilterParse", "FilterParseAgain", "construct"}

\* The patterns of a value at every depth.
RECURSIVE PatternsOf(_)
PatternsOf(val) ==
    IF val.t = "re" THEN {val}
    ELSE UNION {PatternsOf(val.v[x]) : x \in DOMAIN val.v}

\* C25: the filter {name: "/^foo/"} is normalised to a pattern that
\* matches what /^foo/i matches (the values that begin with foo in any
\* case), and the filter {name: "foo"} keeps the string "foo".
C25_PatternFromString ==
    \A p \in Procs :
        /\ (Normalized(p)
              /\ res[p].given = Obj(<<Pair("name", Str(<<"/", "^", "f", "o", "o", "/">>))>>))
           => /\ res[p].value.v[1].t = "re"
              /\ \A val \in TestValues :
                    RegExpTest(res[p].value.v[1].s, val)
                        <=> RegExpTest(<<"^", "f", "o", "o">>, val)
        /\ (Normalized(p) /\ res[p].given = Obj(<<Pair("name", Str(<<"f", "o", "o">>))>>))
           => res[p].value = res[p].given

\* C26: the normaliser keeps the empty string, "/" and "//" as strings:
\* no call of it returns a pattern with an empty body, which matches
\* every value.
C26_NoEmptyPattern ==
    \A p \in Procs :
        Normalized(p)
        => \A re \in PatternsOf(res[p].value) :
              re.s # <<>> /\ \E val \in TestValues : ~RegExpTest(re.s, val)

\* C27: normalising a normalised filter changes nothing: the second
\* pass returns the value it was given, its patterns included.
C27_Idempotent ==
    \A p \in Procs :
        (pc[p] = "done" /\ op[p] = "FilterParseAgain")
        => res[p].value = res[p].given

\* A second pass has returned a filter that holds a pattern under a
\* nested array, as the first pass made it.
C27_PatternKept ==
    \E p \in Procs :
        /\ pc[p] = "done" /\ op[p] = "FilterParseAgain"
        /\ res[p].value.v # <<>>
        /\ res[p].value.v[1].t = "obj"
        /\ PatternsOf(res[p].value) # {}

\* C28: the normaliser leaves the object it is given as it was: after
\* a call of FilterParse or of the constructor the caller's filter
\* object, with every object and array in it, holds what it held.
C28_ArgumentUnchanged ==
    \A p \in Procs : Normalized(p) => res[p].object = res[p].given

\* C29: count and index given a filter string that is no JSON text log
\* the error, take the request's filter for empty and answer 200 with
\* what the default filter, the omit-list and the forced deleted flag
\* alone select.
C29_MalformedFilterIsEmpty ==
    [][\A p \in Procs :
          (nreq' # nreq /\ <<pc[p], op[p], arg[p], res[p]>>' # <<pc[p], op[p], arg[p], res[p]>>
              /\ op'[p] \in {"count", "index"} /\ res'[p].text \in Malformed)
          => /\ res'[p].status = 200 /\ pc'[p] = "done"
             /\ res'[p].logged
             /\ res'[p].filter = NoBody
             /\ res'[p].docs =
                   {store[i] : i \in {x \in Ids :
                       /\ store[x] # NoDoc
                       /\ ("deleted" \in defaultFilter.keys /\ "deleted" \notin omit
                              /\ permanentDeleteData)
                          => store[x].deleted = defaultFilter.deleted
                       /\ ~permanentDeleteData => ~store[x].deleted}}]_vars

\* A count given a malformed filter answered both live documents while
\* a count given the filter {"val": MaxVal} answered none.
C29_FailedOpen ==
    \E p \in Procs, q \in Procs :
        /\ op[p] = "count" /\ pc[p] = "done" /\ res[p].text \in Malformed
        /\ res[p].status = 200 /\ res[p].logged /\ res[p].n = 2
        /\ op[q] = "count" /\ pc[q] = "done" /\ res[q].text \in Texts
        /\ res[q].filter = BodyVal(MaxVal) /\ res[q].n = 0 /\ ~res[q].logged

\* C30: every operation that committed a write to the store has logged
\* an audit record for it: a create, a bulkUpdate or a bulkUpload that
\* answered with documents it stored has logged one.
C30_MutationAudited ==
    \A p \in Procs :
        (pc[p] = "done" /\ op[p] \in {"create", "bulkUpdate", "bulkUpload"}
            /\ res[p].docs # {})
        => res[p].audit

\* C31: a document read by show right after create stored it has version
\* 1, is not deleted, and its createdAt and lastUpdated are equal.
C31_FreshDocumentMetadata ==
    \A p \in Procs :
        (op[p] = "show" /\ pc[p] = "done" /\ res[p].status = 200
            /\ res[p].doc # NoDoc /\ res[p].after = "create")
        => /\ res[p].doc.version = 1
           /\ ~res[p].doc.deleted
           /\ res[p].doc.createdAt = res[p].doc.lastUpdated

\* C32: createdAt is set once: no step of update, bulkUpdate, create with
\* upsert, markAsDeleted or rucc changes the createdAt of a stored
\* document, whatever the payload.
C32_CreatedAtImmutable ==
    [][\A i \in Ids :
          (Present(store, i) /\ Present(store', i))
          => store'[i].createdAt = store[i].createdAt]_vars

C34_WiredSetExposed ==
    \A p \in Procs :
        (op[p] = "MongooseModel" /\ pc[p] = "done")
        => /\ res[p].out = "object"
           /\ {"create", "update", "index", "destroy", "show", "count", "rucc",
               "markAsDeleted", "bulkShow", "bulkUpdate", "bulkUpload", "bulkDestroy",
               "bulkMarkAsDeleted", "aggregate"} \subseteq res[p].named

\* C35: a save of update or bulkUpdate never turns a document that a
\* committed markAsDeleted or bulkMarkAsDeleted left soft-deleted back
\* into a live one, whenever the update read it.
C35_SoftDeleteSurvivesUpdate ==
    [][\A p \in Procs, i \in Ids :
          (/\ op[p] \in {"update", "bulkUpdate"}
           /\ pc[p] \in {"upd_save", "bulk_upd"}
           /\ <<pc[p], items[p]>>' # <<pc[p], items[p]>>
           /\ lastOp[i] \in {"markAsDeleted", "bulkMarkAsDeleted"}
           /\ Present(store, i) /\ store[i].deleted)
          => (Present(store', i) /\ store'[i].deleted)]_vars

\* C36: no step of a create with upsert changes a stored document whose
\* deleted flag is true: its fields and its flag stay as they are.
C36_UpsertSparesSoftDeleted ==
    [][\A p \in Procs, i \in Ids :
          (/\ op[p] = "create" /\ pc[p] = "create_many" /\ arg[p].upsert
           /\ items'[p] # items[p]
           /\ Present(store, i) /\ store[i].deleted)
          => store'[i] = store[i]]_vars

\* C37: the query of every index and count constrains each key of the
\* default filter to the configured value, whatever the request's filter
\* names: every document answered or counted satisfies the default
\* filter.
C37_DefaultFilterHolds ==
    \A p \in Procs :
        (op[p] \in {"index", "count"} /\ pc[p] = "done" /\ res[p].status = 200)
        => \A d \in res[p].docs : Matches(d, defaultFilter)

\* C38: no step of update or bulkUpdate changes, in a stored document, a
\* field whose key is in the omit-list.
C38_OmittedKeysKept ==
    [][\A i \in Ids :
          (Present(store, i) /\ Present(store', i))
          => /\ "val" \in omit => store'[i].val = store[i].val
             /\ "deleted" \in omit => store'[i].deleted = store[i].deleted]_vars

\* C39: in every index answer that carries the metadata envelope, the
\* number of documents returned is at most matched, and matched is at
\* most totalCount.
C39_EnvelopeCountsOrdered ==
    \A p \in Procs :
        (op[p] = "index" /\ pc[p] = "done" /\ res[p].envelope)
        => /\ Len(res[p].data) <= res[p].matched
           /\ res[p].matched <= res[p].totalCount

====
